---- MODULE Spec2Model ----
(***************************************************************************)
(* Party/session state machine of swipe-to-dine.                           *)
(*                                                                         *)
(* The store (usePartyStore.ts) keeps one in-memory party, the loaded      *)
(* candidate list and a localStorage copy of the party per invite id.      *)
(* The swipe page (part_013) drives the store from its vote handler.       *)
(*                                                                         *)
(* Fields of PartyState that no modelled operation reads are left out:     *)
(* hostProfileId, dateTime, filters, seenRestaurantIds, createdAt,         *)
(* updatedAt.                                                              *)
(***************************************************************************)
EXTENDS Integers, Sequences, FiniteSets, TLC

VARIABLES
  party,            \* PartyStoreState.party (NULL when there is none)
  restaurants,      \* PartyStoreState.restaurants, a sequence of candidate ids
  storage,          \* localStorage: invite id -> persisted party (NULL when absent)
  phase,            \* SwipePage: useState<SwipePhase>
  isInPersonReady,  \* SwipePage: useState(false)
  roundStartIndex,  \* SwipePage: useState(0)
  turnLog,          \* history: candidates the current in-person diner voted on this turn
  prevTurnLog,      \* history: candidates voted on in the turn that was handed off last
  peerParty,        \* PartyStoreState.party of a second tab on the same localStorage
  shortlistPhase,   \* ShortlistPage: useState<ShortlistPhase>('view')
  eliminatedIds,    \* ShortlistPage: useState<Set<string>>(new Set())
  currentEliminatorIndex, \* ShortlistPage: useState(0)
  selectedRestaurant, \* ShortlistPage: useState<Restaurant | null>(null), by id
  wheelRestaurants, \* WheelSpinner: the restaurants prop
  wheelOutcome,     \* the last random pick: which function ran and what it produced
  groupVisits,      \* history: number of changes made on the group page
  route             \* the path the router shows

store == <<party, restaurants, storage>>
page == <<phase, isInPersonReady, roundStartIndex>>
history == <<turnLog, prevTurnLog>>
shortlist == <<shortlistPhase, eliminatedIds, currentEliminatorIndex, selectedRestaurant>>
wheel == <<wheelRestaurants, wheelOutcome>>
\* what the store of this tab and its swipe page never write
elsewhere == <<peerParty, shortlist, wheel, groupVisits, route>>
vars == <<party, restaurants, storage, phase, isInPersonReady, roundStartIndex,
          turnLog, prevTurnLog, peerParty, shortlistPhase, eliminatedIds,
          currentEliminatorIndex, selectedRestaurant, wheelRestaurants, wheelOutcome,
          groupVisits, route>>

(***************************************************************************)
(* Bounds                                                                  *)
(***************************************************************************)
\* cap on currentRestaurantIndex for direct advanceToNextRestaurant calls
MaxIndex == 1
\* Date.now() readings are drawn from 1..MaxTime
MaxTime == 1

Times == 1..MaxTime

\* largest roster of the swipe-page specification
MaxDiners == 3
\* length of the candidate sequence loaded into the swipe page
DeckLen == 12
\* cap on the number of 'maybe' cells the swipe page writes into the ledger
MaxMaybes == 2
\* number of profiles the group page lists
MaxGroup == 2
\* cap on the number of changes made on the group page during voting
MaxVisits == 1
\* number of first-round candidates the in-person diners may have accepted
MaxShortlist == 4
\* Math.random() is read to the precision 1 / RandomGrain
RandomGrain == 4

\* profile ids of the swipe-page rosters, in roster order
ProfileOrder == <<"A", "B", "C", "D">>
\* id of the profile whose name is 'Just Browsing'
JustBrowsingId == "J"
\* candidate ids the restaurant search can return, in ranking order
CandidatePool ==
  <<"r01", "r02", "r03", "r04", "r05", "r06", "r07", "r08", "r09", "r10",
    "r11", "r12", "r13", "r14">>
Deck == SubSeq(CandidatePool, 1, DeckLen)

\* profile ids known to the store-level specification
Profiles == {"A", "B"}
\* candidate ids known to the store-level specification
RestaurantIds == {"X", "Y"}
\* candidate lists handed to setRestaurants
RestaurantLists == {<<"X", "Y">>, <<"Y">>}
\* invite ids generateInviteId can return in the store-level specification
SessionIds == {"inv1"}
\* invite ids a party may be stored under in localStorage
InviteIds == {"inv1", "inv2"}

(***************************************************************************)
(* Types                                                                   *)
(***************************************************************************)
AttendanceMode == {"remote", "inPerson"}
VoteStatus == {"unknown", "no", "maybe"}
\* the statuses the swipe handlers pass to vote: handleSwipeLeft, handleSwipeRight
SwipeStatus == {"no", "maybe"}

\* JavaScript null for an object, for a string id and for a number
NULL == [null |-> TRUE]
NoId == "null"
NoTime == 0
\* what indexing an object with a key it does not have yields
Undefined == "undefined"

\* {} as a votes object
EmptyObject == [k \in {} |-> Undefined]

\* no random pick has completed
NoOutcome == [call |-> "none", result |-> NoId]

(***************************************************************************)
(* Pure helpers                                                            *)
(***************************************************************************)
\* votes[key] for an object that may lack the key
Lookup(obj, key) == IF key \in DOMAIN obj THEN obj[key] ELSE Undefined

\* party.votes[restaurantId] || {}
VotesOrEmpty(p, restaurantId) ==
  IF restaurantId \in DOMAIN p.votes THEN p.votes[restaurantId] ELSE EmptyObject

\* { ...obj, [key]: value }
Put(obj, key, value) ==
  [k \in DOMAIN obj \cup {key} |-> IF k = key THEN value ELSE obj[k]]

\* const copy = { ...obj }; delete copy[key]
Delete(obj, key) == [k \in DOMAIN obj \ {key} |-> obj[k]]

\* the elements of an array
SeqRange(q) == {q[i] : i \in 1..Len(q)}

\* the profile ids on the roster of p
RosterIds(p) == {p.selectedDiners[i].profileId : i \in 1..Len(p.selectedDiners)}

\* selectedDiners.some((d) => d.profileId === profileId)
isDinerSelectedIn(p, profileId) ==
  \E i \in 1..Len(p.selectedDiners) : p.selectedDiners[i].profileId = profileId

IsInPerson(d) == d.mode = "inPerson"

\* selectedDiners.filter((d) => d.mode === 'inPerson')
InPersonDinersOf(p) == SelectSeq(p.selectedDiners, IsInPerson)

\* the party createParty builds
\* dateTime: string | null, the null and the strings the date picker produces
NoDateTime == "null"
DateTimes == {"2026-11-07T19:00"}

NewParty(inviteId) ==
  [ inviteId                  |-> inviteId,
    selectedDiners            |-> <<>>,
    votes                     |-> EmptyObject,
    matchedRestaurantId       |-> NoId,
    matchedAt                 |-> NoTime,
    currentRestaurantIndex    |-> 0,
    currentInPersonDinerIndex |-> 0,
    inPersonDinerStartIndex   |-> 0,
    dateTime                  |-> NoDateTime ]

\* the members of an object, as JSON text lists them
Members(obj) == {<<k, obj[k]>> : k \in DOMAIN obj}

\* the object a list of members denotes
FromMembers(members) ==
  [k \in {m[1] : m \in members} |-> (CHOOSE m \in members : m[1] = k)[2]]

\* JSON.stringify(party): arrays stay sequences, the nested votes object
\* becomes its member lists
JSONstringify(p) ==
  [p EXCEPT !.votes = {<<m[1], Members(m[2])>> : m \in Members(p.votes)}]

\* JSON.parse(stored) as PartyState
JSONparse(text) ==
  [text EXCEPT !.votes = FromMembers({<<m[1], FromMembers(m[2])>> : m \in text.votes})]

\* localStorage.setItem(key, JSON.stringify(value))
setItem(ls, key, value) == [ls EXCEPT ![key] = JSONstringify(value)]

\* set({ party: updatedParty }) followed by localStorage.setItem(key, ...)
Commit(updatedParty) ==
  /\ party' = updatedParty
  /\ storage' = setItem(storage, party.inviteId, updatedParty)

(***************************************************************************)
(* Getters of the store, as functions of the party p they read             *)
(***************************************************************************)
\* the for loop of getRestaurantsWithUnanimousMaybes from diner i on
RECURSIVE unanimousFrom(_, _, _)
unanimousFrom(allDiners, votes, i) ==
  IF i > Len(allDiners) THEN TRUE
  ELSE IF Lookup(votes, allDiners[i].profileId) # "maybe" THEN FALSE
       ELSE unanimousFrom(allDiners, votes, i + 1)

\* the for loop of checkForMatch from diner i on: false at the first diner
\* whose vote is not 'maybe', allDiners.length > 0 when the loop ends
RECURSIVE checkForMatchFrom(_, _, _)
checkForMatchFrom(allDiners, votes, i) ==
  IF i > Len(allDiners) THEN Len(allDiners) > 0
  ELSE IF Lookup(votes, allDiners[i].profileId) # "maybe" THEN FALSE
       ELSE checkForMatchFrom(allDiners, votes, i + 1)

\* mutation: the final allDiners.length > 0 test is dropped
checkForMatchIn_noRosterGuard(p, restaurantId) ==
  IF p = NULL THEN FALSE
  ELSE unanimousFrom(p.selectedDiners, VotesOrEmpty(p, restaurantId), 1)

checkForMatchIn(p, restaurantId) ==
  IF p = NULL THEN FALSE
  ELSE checkForMatchFrom(p.selectedDiners, VotesOrEmpty(p, restaurantId), 1)

checkForMatch(restaurantId) == checkForMatchIn(party, restaurantId)

getVote(dinerId, restaurantId) ==
  IF party = NULL THEN "unknown"
  ELSE IF restaurantId \notin DOMAIN party.votes THEN "unknown"
  ELSE IF dinerId \notin DOMAIN party.votes[restaurantId] THEN "unknown"
  ELSE party.votes[restaurantId][dinerId]

getAllVotesForRestaurant(restaurantId) ==
  IF party = NULL THEN EmptyObject ELSE VotesOrEmpty(party, restaurantId)

getInPersonDiners == IF party = NULL THEN <<>> ELSE InPersonDinersOf(party)

\* inPersonDiners[currentInPersonDinerIndex] || null
getCurrentInPersonDiner ==
  IF party = NULL THEN NULL
  ELSE IF party.currentInPersonDinerIndex + 1 \in 1..Len(InPersonDinersOf(party))
       THEN InPersonDinersOf(party)[party.currentInPersonDinerIndex + 1]
       ELSE NULL

\* restaurants[currentRestaurantIndex] || null
getCurrentRestaurant ==
  IF party = NULL \/ Len(restaurants) = 0 THEN NoId
  ELSE IF party.currentRestaurantIndex + 1 \in 1..Len(restaurants)
       THEN restaurants[party.currentRestaurantIndex + 1]
       ELSE NoId

\* mutation: only the votes of roster members count
HasMaybeVote_rosterOnly(restaurantId) ==
  /\ restaurantId \in DOMAIN party.votes
  /\ \E d \in DOMAIN party.votes[restaurantId] \cap RosterIds(party) :
       party.votes[restaurantId][d] = "maybe"

\* Object.values(votes).some((v) => v === 'maybe')
HasMaybeVote(restaurantId) ==
  /\ restaurantId \in DOMAIN party.votes
  /\ \E d \in DOMAIN party.votes[restaurantId] : party.votes[restaurantId][d] = "maybe"

getRestaurantsWithMaybeVotes ==
  IF party = NULL THEN <<>> ELSE SelectSeq(restaurants, HasMaybeVote)

IsUnanimousMaybe(restaurantId) ==
  /\ restaurantId \in DOMAIN party.votes
  /\ unanimousFrom(party.selectedDiners, party.votes[restaurantId], 1)

getRestaurantsWithUnanimousMaybes ==
  IF party = NULL THEN <<>> ELSE SelectSeq(restaurants, IsUnanimousMaybe)

hasCurrentInPersonDinerFinishedRound(roundSize) ==
  IF party = NULL THEN TRUE
  ELSE party.currentRestaurantIndex - party.inPersonDinerStartIndex >= roundSize

(***************************************************************************)
(* Mutators of the store: the updatedParty each one builds from party p    *)
(***************************************************************************)
setDateTimeParty(p, dateTime) == [p EXCEPT !.dateTime = dateTime]

\* mutation: the already-added check is dropped
addDinerParty_noCheck(p, profileId, mode) ==
  [p EXCEPT !.selectedDiners = Append(@, [profileId |-> profileId, mode |-> mode])]

addDinerParty(p, profileId, mode) ==
  IF isDinerSelectedIn(p, profileId) THEN p
  ELSE [p EXCEPT !.selectedDiners = Append(@, [profileId |-> profileId, mode |-> mode])]

\* mutation: the removed diner's votes are pruned from the ledger
removeDinerParty_pruneVotes(p, profileId) ==
  LET Keep(d) == d.profileId # profileId
  IN [p EXCEPT !.selectedDiners = SelectSeq(@, Keep),
               !.votes = [r \in DOMAIN @ |-> Delete(@[r], profileId)]]

removeDinerParty(p, profileId) ==
  LET Keep(d) == d.profileId # profileId
  IN [p EXCEPT !.selectedDiners = SelectSeq(@, Keep)]

setDinerModeParty(p, profileId, mode) ==
  [p EXCEPT !.selectedDiners =
     [i \in 1..Len(@) |->
        IF @[i].profileId = profileId
          THEN [profileId |-> @[i].profileId, mode |-> mode]
          ELSE @[i]]]

\* mutation: the cursor skips a candidate
advanceToNextRestaurantParty_skip(p) == [p EXCEPT !.currentRestaurantIndex = @ + 2]

advanceToNextRestaurantParty(p) == [p EXCEPT !.currentRestaurantIndex = @ + 1]

\* mutation: the candidate's earlier votes are not spread into the new object
voteParty_overwrite(p, dinerId, restaurantId, status) ==
  [p EXCEPT !.votes = Put(@, restaurantId, Put(EmptyObject, dinerId, status))]

voteParty(p, dinerId, restaurantId, status) ==
  [p EXCEPT !.votes =
     Put(@, restaurantId, Put(VotesOrEmpty(p, restaurantId), dinerId, status))]

\* the value advanceToNextInPersonDiner returns: all in-person diners are done
\* mutation: the last diner of the rotation is not recognised as the last
advanceToNextInPersonDinerResult_offByOne(p) ==
  IF p = NULL THEN TRUE
  ELSE p.currentInPersonDinerIndex + 1 > Len(InPersonDinersOf(p))

advanceToNextInPersonDinerResult(p) ==
  IF p = NULL THEN TRUE
  ELSE p.currentInPersonDinerIndex + 1 >= Len(InPersonDinersOf(p))

\* mutation: the cursor is not reset to the round start
advanceToNextInPersonDinerParty_noReset(p) ==
  IF advanceToNextInPersonDinerResult(p) THEN p
  ELSE [p EXCEPT !.currentInPersonDinerIndex = @ + 1]

advanceToNextInPersonDinerParty(p) ==
  IF advanceToNextInPersonDinerResult(p) THEN p
  ELSE [p EXCEPT !.currentInPersonDinerIndex = @ + 1,
                 !.currentRestaurantIndex = p.inPersonDinerStartIndex]

\* mutation: the start of the batch is not moved to the cursor
resetInPersonFlowParty_keepStart(p) ==
  [p EXCEPT !.currentInPersonDinerIndex = 0]

resetInPersonFlowParty(p) ==
  [p EXCEPT !.currentInPersonDinerIndex = 0,
            !.inPersonDinerStartIndex = p.currentRestaurantIndex]

\* mutation: setting the match drops the votes on the matched candidate
setMatchParty_dropVotes(p, restaurantId, now) ==
  [p EXCEPT !.matchedRestaurantId = restaurantId, !.matchedAt = now,
            !.votes = Delete(@, restaurantId)]

setMatchParty(p, restaurantId, now) ==
  [p EXCEPT !.matchedRestaurantId = restaurantId, !.matchedAt = now]

clearVotesForRestaurantParty(p, restaurantId) ==
  [p EXCEPT !.votes = Delete(@, restaurantId)]

(***************************************************************************)
(* The store's operations as actions                                       *)
(***************************************************************************)
\* mutation: the loaded candidates survive the creation of a party
createParty_keepRestaurants(inviteId) ==
  /\ party' = NewParty(inviteId)
  /\ storage' = setItem(storage, inviteId, NewParty(inviteId))
  /\ UNCHANGED <<restaurants, page, history, elsewhere>>

createParty(inviteId) ==
  /\ party' = NewParty(inviteId)
  /\ restaurants' = <<>>
  /\ storage' = setItem(storage, inviteId, NewParty(inviteId))
  /\ UNCHANGED <<page, history, elsewhere>>

\* localStorage.getItem(key)
getItem(ls, key) == ls[key]

\* what loadParty returns
loadPartyResult(ls, inviteId) ==
  IF getItem(ls, inviteId) # NULL THEN JSONparse(getItem(ls, inviteId)) ELSE NULL

\* mutation: an unknown invite id clears the current party
loadParty_clearOnMiss(inviteId) ==
  /\ party' = loadPartyResult(storage, inviteId)
  /\ UNCHANGED <<restaurants, storage, page, history, elsewhere>>

loadParty(inviteId) ==
  /\ IF getItem(storage, inviteId) # NULL
       THEN party' = JSONparse(getItem(storage, inviteId))
       ELSE UNCHANGED party
  /\ UNCHANGED <<restaurants, storage, page, history, elsewhere>>

clearParty ==
  /\ party' = NULL
  /\ restaurants' = <<>>
  /\ UNCHANGED <<storage, page, history, elsewhere>>

addDiner(profileId, mode) ==
  /\ party # NULL
  /\ LET updatedParty == addDinerParty(party, profileId, mode)
     IN IF updatedParty = party
          THEN UNCHANGED <<party, storage>>
          ELSE Commit(updatedParty)
  /\ UNCHANGED <<restaurants, page, history, elsewhere>>

removeDiner(profileId) ==
  /\ party # NULL
  /\ Commit(removeDinerParty(party, profileId))
  /\ UNCHANGED <<restaurants, page, history, elsewhere>>

setDinerMode(profileId, mode) ==
  /\ party # NULL
  /\ Commit(setDinerModeParty(party, profileId, mode))
  /\ UNCHANGED <<restaurants, page, history, elsewhere>>

setRestaurants(list) ==
  /\ restaurants' = list
  /\ UNCHANGED <<party, storage, page, history, elsewhere>>

advanceToNextRestaurant ==
  /\ party # NULL
  /\ Commit(advanceToNextRestaurantParty(party))
  /\ UNCHANGED <<restaurants, page, history, elsewhere>>

vote(dinerId, restaurantId, status) ==
  /\ party # NULL
  /\ Commit(voteParty(party, dinerId, restaurantId, status))
  /\ UNCHANGED <<restaurants, page, history, elsewhere>>

advanceToNextInPersonDiner ==
  /\ party # NULL
  /\ IF advanceToNextInPersonDinerResult(party)
       THEN UNCHANGED <<party, storage>>
       ELSE Commit(advanceToNextInPersonDinerParty(party))
  /\ UNCHANGED <<restaurants, page, history, elsewhere>>

resetInPersonFlow ==
  /\ party # NULL
  /\ Commit(resetInPersonFlowParty(party))
  /\ UNCHANGED <<restaurants, page, history, elsewhere>>

\* mutation: the date is set in memory only
setDateTime_memoryOnly(dateTime) ==
  /\ party # NULL
  /\ party' = setDateTimeParty(party, dateTime)
  /\ UNCHANGED <<restaurants, storage, page, history, elsewhere>>

setDateTime(dateTime) ==
  /\ party # NULL
  /\ Commit(setDateTimeParty(party, dateTime))
  /\ UNCHANGED <<restaurants, page, history, elsewhere>>

setMatch(restaurantId, now) ==
  /\ party # NULL
  /\ Commit(setMatchParty(party, restaurantId, now))
  /\ UNCHANGED <<restaurants, page, history, elsewhere>>

clearVotesForRestaurant(restaurantId) ==
  /\ party # NULL
  /\ Commit(clearVotesForRestaurantParty(party, restaurantId))
  /\ UNCHANGED <<restaurants, page, history, elsewhere>>

(***************************************************************************)
(* Store-level specification: any sequence of calls on the store           *)
(***************************************************************************)
PageInit ==
  /\ phase = "swiping"
  /\ isInPersonReady = FALSE
  /\ roundStartIndex = 0
  /\ turnLog = <<>>
  /\ prevTurnLog = <<>>

\* no second tab, the shortlist page as it mounts, no wheel on screen
ElsewhereInit ==
  /\ peerParty = NULL
  /\ shortlistPhase = "view"
  /\ eliminatedIds = {}
  /\ currentEliminatorIndex = 0
  /\ selectedRestaurant = NoId
  /\ wheelRestaurants = <<>>
  /\ wheelOutcome = NoOutcome
  /\ groupVisits = 0

Init ==
  /\ party = NULL
  /\ restaurants = <<>>
  /\ storage = [i \in InviteIds |-> NULL]
  /\ PageInit
  /\ ElsewhereInit
  /\ route = "/"

CreateParty == \E i \in SessionIds : createParty(i)
AddDiner == \E d \in Profiles, m \in AttendanceMode : addDiner(d, m)
RemoveDiner == \E d \in Profiles : removeDiner(d)
SetDinerMode == \E d \in Profiles, m \in AttendanceMode : setDinerMode(d, m)
SetRestaurants == \E l \in RestaurantLists : setRestaurants(l)
AdvanceToNextRestaurant ==
  /\ party # NULL
  /\ party.currentRestaurantIndex < MaxIndex
  /\ advanceToNextRestaurant
Vote == \E d \in Profiles, r \in RestaurantIds, s \in SwipeStatus : vote(d, r, s)
AdvanceToNextInPersonDiner == advanceToNextInPersonDiner
ResetInPersonFlow == resetInPersonFlow
SetMatch == \E r \in RestaurantIds, t \in Times : setMatch(r, t)
ClearVotesForRestaurant == \E r \in RestaurantIds : clearVotesForRestaurant(r)

Next ==
  \/ CreateParty
  \/ AddDiner
  \/ RemoveDiner
  \/ SetDinerMode
  \/ SetRestaurants
  \/ AdvanceToNextRestaurant
  \/ Vote
  \/ AdvanceToNextInPersonDiner
  \/ ResetInPersonFlow
  \/ SetMatch
  \/ ClearVotesForRestaurant

Spec == Init /\ [][Next]_vars

(***************************************************************************)
(* Persistence: every mutator of one session, the date picker included,    *)
(* and loadParty of that session                                           *)
(***************************************************************************)
SetDateTime == \E d \in DateTimes \cup {NoDateTime} : setDateTime(d)
LoadParty == \E i \in SessionIds : loadParty(i)

PersistNext ==
  \/ CreateParty
  \/ LoadParty
  \/ AddDiner
  \/ RemoveDiner
  \/ SetDinerMode
  \/ SetDateTime
  \/ AdvanceToNextRestaurant
  \/ Vote
  \/ AdvanceToNextInPersonDiner
  \/ ResetInPersonFlow
  \/ SetMatch
  \/ ClearVotesForRestaurant

PersistSpec == Init /\ [][PersistNext]_vars

(***************************************************************************)
(* Swipe page: values derived at render time                               *)
(***************************************************************************)
RESTAURANTS_PER_ROUND == 10

\* getProfile(id).name
ProfileName(profileId) ==
  IF profileId = JustBrowsingId THEN "Just Browsing" ELSE profileId

inPersonDiners == getInPersonDiners
currentInPersonDiner == getCurrentInPersonDiner
currentRestaurant == getCurrentRestaurant
currentVotes ==
  IF currentRestaurant = NoId THEN EmptyObject
  ELSE getAllVotesForRestaurant(currentRestaurant)

needsInPersonHandoff ==
  Len(inPersonDiners) > 0 /\ ~isInPersonReady /\ currentRestaurant # NoId

isSingleDinerIn(p) == p # NULL /\ Len(p.selectedDiners) = 1
isMultiDinerInPersonIn(p) ==
  p # NULL /\ ~isSingleDinerIn(p) /\ Len(InPersonDinersOf(p)) > 1
isSingleDiner == isSingleDinerIn(party)
isMultiDinerInPerson == isMultiDinerInPersonIn(party)

\* mutation: the browse-only diner is treated like any solo diner
isBrowseOnly_never == FALSE

isBrowseOnly ==
  isSingleDiner /\ ProfileName(party.selectedDiners[1].profileId) = "Just Browsing"

swipeCount == IF party = NULL THEN 0 ELSE party.currentRestaurantIndex
remainingInDeck == Len(restaurants) - swipeCount

\* allDinersFinishedRound, for the party p
allDinersFinishedRoundIn(p) ==
  /\ isMultiDinerInPersonIn(p)
  /\ p.currentInPersonDinerIndex >= Len(InPersonDinersOf(p)) - 1
  /\ p.currentRestaurantIndex - p.inPersonDinerStartIndex >= RESTAURANTS_PER_ROUND

\* useEffect: allDinersFinishedRound && phase === 'swiping' -> 'roundEnd';
\* the phase after the effect ran on phase ph and party p
roundEndEffect(ph, p) ==
  IF allDinersFinishedRoundIn(p) /\ ph = "swiping" THEN "roundEnd" ELSE ph

\* the card with its swipe handlers is rendered
CardShown ==
  /\ party # NULL
  /\ Len(restaurants) > 0
  /\ phase \notin {"roundEnd", "spinWheel"}
  /\ currentRestaurant # NoId

\* the 'pass to' overlay covers the card
OverlayShown == CardShown /\ needsInPersonHandoff /\ currentInPersonDiner # NULL

\* mutation: the scan returns the last roster member without a vote
RECURSIVE firstUnvoted_last(_, _, _)
firstUnvoted_last(diners, votes, i) ==
  IF i > Len(diners) THEN diners[1].profileId
  ELSE IF /\ Lookup(votes, diners[i].profileId) \in {Undefined, "unknown"}
          /\ \A j \in (i + 1)..Len(diners) :
               Lookup(votes, diners[j].profileId) \notin {Undefined, "unknown"}
         THEN diners[i].profileId
         ELSE firstUnvoted_last(diners, votes, i + 1)

\* the diner handleVote attributes the swipe to
RECURSIVE firstUnvoted(_, _, _)
firstUnvoted(diners, votes, i) ==
  IF i > Len(diners) THEN diners[1].profileId
  ELSE IF Lookup(votes, diners[i].profileId) \in {Undefined, "unknown"}
         THEN diners[i].profileId
         ELSE firstUnvoted(diners, votes, i + 1)

\* mutation: the in-person branch is dropped
votingDinerId_rosterScan ==
  IF Len(party.selectedDiners) = 1
    THEN party.selectedDiners[1].profileId
  ELSE firstUnvoted(party.selectedDiners, currentVotes, 1)

votingDinerId ==
  IF Len(inPersonDiners) > 0 /\ currentInPersonDiner # NULL
    THEN currentInPersonDiner.profileId
  ELSE IF Len(party.selectedDiners) = 1
    THEN party.selectedDiners[1].profileId
  ELSE firstUnvoted(party.selectedDiners, currentVotes, 1)

MaybeCount(p) ==
  Cardinality({cell \in UNION {{<<r, d>> : d \in DOMAIN p.votes[r]} : r \in DOMAIN p.votes} :
                 p.votes[cell[1]][cell[2]] = "maybe"})

(***************************************************************************)
(* Swipe page: handlers                                                    *)
(***************************************************************************)
\* handleVote when the swipe is recorded and produces an instant match
handleVoteMatched(voted, now) ==
  LET matched == setMatchParty(voted, currentRestaurant, now)
  IN /\ party' = matched
     /\ storage' = setItem(storage, party.inviteId, matched)
     /\ phase' = "matched"
     /\ UNCHANGED <<restaurants, isInPersonReady, roundStartIndex, history, elsewhere>>

\* handleVote when the swipe is recorded and the walk moves on
handleVoteAdvance(voted) ==
  LET advanced == advanceToNextRestaurantParty(voted)
      newSwipeCount == party.currentRestaurantIndex + 1
      newDinerSwipeCount == newSwipeCount - party.inPersonDinerStartIndex
      batchDone == isMultiDinerInPerson /\ newDinerSwipeCount >= RESTAURANTS_PER_ROUND
      allDone == advanceToNextInPersonDinerResult(advanced)
      final == IF batchDone THEN advanceToNextInPersonDinerParty(advanced) ELSE advanced
      logged == IF isMultiDinerInPerson THEN Append(turnLog, currentRestaurant) ELSE turnLog
  IN /\ party' = final
     /\ storage' = setItem(storage, party.inviteId, final)
     /\ isInPersonReady' = IF batchDone THEN FALSE ELSE isInPersonReady
     /\ phase' = roundEndEffect(IF batchDone /\ allDone THEN "roundEnd" ELSE phase, final)
     /\ turnLog' = IF batchDone /\ ~allDone THEN <<>> ELSE logged
     /\ prevTurnLog' = IF batchDone /\ ~allDone THEN logged ELSE prevTurnLog
     /\ UNCHANGED <<restaurants, roundStartIndex, elsewhere>>

\* mutation: the instant match is also looked for at a table of in-person
\* diners
handleVote_matchAtAnyTable(status) ==
  IF currentRestaurant = NoId \/ party = NULL
    THEN UNCHANGED vars
  ELSE IF Len(inPersonDiners) = 0 /\ Len(party.selectedDiners) = 0
    THEN UNCHANGED vars
  ELSE LET voted == voteParty(party, votingDinerId, currentRestaurant, status)
       IN IF ~isBrowseOnly /\ checkForMatchIn(voted, currentRestaurant)
            THEN \E now \in Times : handleVoteMatched(voted, now)
            ELSE handleVoteAdvance(voted)

handleVote(status) ==
  IF currentRestaurant = NoId \/ party = NULL
    THEN UNCHANGED vars
  ELSE IF Len(inPersonDiners) = 0 /\ Len(party.selectedDiners) = 0
    \* party.selectedDiners[0].profileId throws: the handler ends here
    THEN UNCHANGED vars
  ELSE LET voted == voteParty(party, votingDinerId, currentRestaurant, status)
       IN IF ~isMultiDinerInPerson /\ ~isBrowseOnly /\ checkForMatchIn(voted, currentRestaurant)
            THEN \E now \in Times : handleVoteMatched(voted, now)
            ELSE handleVoteAdvance(voted)

handleInPersonReady ==
  /\ isInPersonReady' = TRUE
  /\ UNCHANGED <<store, phase, roundStartIndex, history, elsewhere>>

\* mutation: the next round starts again at the first candidate
handleContinueRound_rewind ==
  LET reset == [resetInPersonFlowParty(party) EXCEPT
                  !.currentRestaurantIndex = 0, !.inPersonDinerStartIndex = 0]
  IN /\ roundStartIndex' = swipeCount
     /\ party' = reset
     /\ storage' = setItem(storage, party.inviteId, reset)
     /\ isInPersonReady' = FALSE
     /\ phase' = roundEndEffect("swiping", reset)
     /\ turnLog' = <<>>
     /\ prevTurnLog' = <<>>
     /\ UNCHANGED <<restaurants, elsewhere>>

handleContinueRound ==
  LET reset == resetInPersonFlowParty(party)
  IN /\ roundStartIndex' = swipeCount
     /\ party' = reset
     /\ storage' = setItem(storage, party.inviteId, reset)
     /\ isInPersonReady' = FALSE
     /\ phase' = roundEndEffect("swiping", reset)
     /\ turnLog' = <<>>
     /\ prevTurnLog' = <<>>
     /\ UNCHANGED <<restaurants, elsewhere>>

\* the page is left and entered again: its local state starts over, the
\* store keeps the party and the loaded candidates
mountSwipePage ==
  /\ phase' = roundEndEffect("swiping", party)
  /\ isInPersonReady' = FALSE
  /\ roundStartIndex' = 0
  /\ UNCHANGED <<store, history, elsewhere>>

(***************************************************************************)
(* Swipe-page specification: a roster chosen on the group page, the        *)
(* candidates loaded, then any sequence of events the page offers          *)
(***************************************************************************)
RostersOfLength(n) ==
  {[i \in 1..n |-> [profileId |-> ProfileOrder[i], mode |-> m[i]]] :
     m \in [1..n -> AttendanceMode]}

SwipeRosters ==
  UNION {RostersOfLength(n) : n \in 1..MaxDiners}
    \cup {<<[profileId |-> JustBrowsingId, mode |-> "remote"]>>}

SwipeInit ==
  /\ \E roster \in SwipeRosters :
       /\ party = [NewParty("inv1") EXCEPT !.selectedDiners = roster]
       /\ storage = [i \in InviteIds |-> IF i = party.inviteId THEN JSONstringify(party) ELSE NULL]
  /\ restaurants = Deck
  /\ PageInit
  /\ ElsewhereInit
  /\ route = "/swipe"

HandleVote ==
  /\ CardShown
  /\ ~OverlayShown
  /\ \E status \in SwipeStatus :
       /\ status = "maybe" => MaybeCount(party) < MaxMaybes
       /\ handleVote(status)

HandleInPersonReady == OverlayShown /\ handleInPersonReady

HandleContinueRound ==
  /\ party # NULL
  /\ Len(restaurants) > 0
  /\ phase = "roundEnd"
  /\ remainingInDeck > 0
  /\ handleContinueRound

MountSwipePage == party # NULL /\ mountSwipePage

SwipeNext ==
  \/ HandleVote
  \/ HandleInPersonReady
  \/ HandleContinueRound
  \/ MountSwipePage

SwipeSpec == SwipeInit /\ [][SwipeNext]_vars

(***************************************************************************)
(* Group page, reached from the header of the swipe page.  While it is     *)
(* shown the swipe page is unmounted; the swipe page's local state is      *)
(* given the values its next mount computes from the party in the store.   *)
(***************************************************************************)
\* the swipe page mounts on party p
enterSwipePage(p) ==
  /\ phase' = roundEndEffect("swiping", p)
  /\ isInPersonReady' = FALSE
  /\ roundStartIndex' = 0

\* handleToggleSelect: removeDiner for a selected profile, addDiner otherwise
handleToggleSelect(profileId) ==
  LET updatedParty ==
        IF isDinerSelectedIn(party, profileId)
          THEN removeDinerParty(party, profileId)
          ELSE addDinerParty(party, profileId, "remote")
  IN /\ Commit(updatedParty)
     /\ enterSwipePage(updatedParty)
     /\ groupVisits' = groupVisits + 1
     /\ UNCHANGED <<restaurants, history, peerParty, shortlist, wheel, route>>

\* handleModeChange: setDinerMode
handleModeChange(profileId, mode) ==
  LET updatedParty == setDinerModeParty(party, profileId, mode)
  IN /\ Commit(updatedParty)
     /\ enterSwipePage(updatedParty)
     /\ groupVisits' = groupVisits + 1
     /\ UNCHANGED <<restaurants, history, peerParty, shortlist, wheel, route>>

\* the profiles the group page lists
GroupProfiles == SeqRange(SubSeq(ProfileOrder, 1, MaxGroup))

\* the rosters the swipe page is first entered with
FlowInit ==
  /\ \E roster \in UNION {RostersOfLength(n) : n \in 1..MaxGroup} :
       /\ party = [NewParty("inv1") EXCEPT !.selectedDiners = roster]
       /\ storage = [i \in InviteIds |-> IF i = party.inviteId THEN JSONstringify(party) ELSE NULL]
  /\ restaurants = Deck
  /\ PageInit
  /\ ElsewhereInit
  /\ route = "/swipe"

HandleToggleSelect ==
  /\ party # NULL
  /\ groupVisits < MaxVisits
  /\ \E d \in GroupProfiles : handleToggleSelect(d)

\* the mode switch is offered for selected diners, with the other mode
HandleModeChange ==
  /\ party # NULL
  /\ groupVisits < MaxVisits
  /\ \E i \in 1..Len(party.selectedDiners), m \in AttendanceMode :
       /\ m # party.selectedDiners[i].mode
       /\ handleModeChange(party.selectedDiners[i].profileId, m)

FlowNext ==
  \/ HandleVote
  \/ HandleInPersonReady
  \/ HandleContinueRound
  \/ MountSwipePage
  \/ HandleToggleSelect
  \/ HandleModeChange

\* the swipe page with visits to the group page in between
FlowSpec == FlowInit /\ [][FlowNext]_vars

(***************************************************************************)
(* Swipe page at a small table: the rosters the group page builds from its *)
(* first MaxGroup profiles, and the browse-only roster                     *)
(***************************************************************************)
SmallTableRosters ==
  UNION {RostersOfLength(n) : n \in 1..MaxGroup}
    \cup {<<[profileId |-> JustBrowsingId, mode |-> "remote"]>>}

SmallTableInit ==
  /\ \E roster \in SmallTableRosters :
       /\ party = [NewParty("inv1") EXCEPT !.selectedDiners = roster]
       /\ storage = [i \in InviteIds |-> IF i = party.inviteId THEN JSONstringify(party) ELSE NULL]
  /\ restaurants = Deck
  /\ PageInit
  /\ ElsewhereInit
  /\ route = "/swipe"

SmallTableSpec == SmallTableInit /\ [][SwipeNext]_vars

\* the swipe page in the hands of diners who keep going until the page
\* offers nothing more: whatever stays on screen, a card, the overlay or the
\* round-end screen, is eventually answered
VotingNext ==
  \/ HandleVote
  \/ HandleInPersonReady
  \/ HandleContinueRound

VotingSpec ==
  /\ SmallTableInit
  /\ [][VotingNext]_vars
  /\ WF_vars(HandleVote)
  /\ WF_vars(HandleInPersonReady)
  /\ WF_vars(HandleContinueRound)

(***************************************************************************)
(* Session lifecycle: parties are created, worked on, left and loaded      *)
(* again by invite id                                                      *)
(***************************************************************************)
\* what the restaurant search returns for the filters of each party
SearchResults == [i \in InviteIds |-> IF i = "inv1" THEN <<"X", "Y">> ELSE <<"Y">>]

\* the swipe page's load effect: it searches only when no candidates are loaded
loadRestaurants ==
  /\ party # NULL
  /\ Len(restaurants) = 0
  /\ setRestaurants(SearchResults[party.inviteId])

LifeCreateParty == \E i \in InviteIds : createParty(i)
LifeLoadParty == \E i \in InviteIds : loadParty(i)
ClearParty == clearParty
LifeAddDiner == addDiner("A", "inPerson")
LifeVote == \E s \in SwipeStatus : vote("A", "X", s)

LifecycleNext ==
  \/ LifeCreateParty
  \/ LifeLoadParty
  \/ ClearParty
  \/ LifeAddDiner
  \/ LifeVote
  \/ loadRestaurants
  \/ AdvanceToNextRestaurant
  \/ SetMatch

LifecycleSpec == Init /\ [][LifecycleNext]_vars

(***************************************************************************)
(* Sessions resumed by invite link: parties are created and loaded again   *)
(* by invite id while the swipe page loads candidates and takes votes      *)
(***************************************************************************)
InviteNext ==
  \/ LifeCreateParty
  \/ LifeLoadParty
  \/ ClearParty
  \/ LifeAddDiner
  \/ loadRestaurants
  \/ party # NULL /\ Len(party.selectedDiners) > 0 /\ HandleVote
  \/ HandleInPersonReady
  \/ MountSwipePage

InviteSpec == Init /\ [][InviteNext]_vars

(***************************************************************************)
(* The ledger under every status the VoteStatus type admits                *)
(***************************************************************************)
LedgerAddDiner == \E d \in Profiles : addDiner(d, "remote")
LedgerVote == \E d \in Profiles, r \in RestaurantIds, s \in VoteStatus : vote(d, r, s)

LedgerNext ==
  \/ CreateParty
  \/ LedgerAddDiner
  \/ RemoveDiner
  \/ LedgerVote
  \/ ClearVotesForRestaurant
  \/ AdvanceToNextRestaurant
  \/ SetMatch

LedgerSpec == Init /\ [][LedgerNext]_vars

(***************************************************************************)
(* Two tabs of one browser: each runs its own store, both read and write   *)
(* the same localStorage                                                   *)
(***************************************************************************)
\* loadParty in the second tab
peerLoadParty(inviteId) ==
  /\ IF getItem(storage, inviteId) # NULL
       THEN peerParty' = JSONparse(getItem(storage, inviteId))
       ELSE UNCHANGED peerParty
  /\ UNCHANGED <<store, page, history, shortlist, wheel, groupVisits, route>>

\* vote in the second tab
peerVote(dinerId, restaurantId, status) ==
  /\ peerParty # NULL
  /\ LET updatedParty == voteParty(peerParty, dinerId, restaurantId, status)
     IN /\ peerParty' = updatedParty
        /\ storage' = setItem(storage, peerParty.inviteId, updatedParty)
  /\ UNCHANGED <<party, restaurants, page, history, shortlist, wheel, groupVisits, route>>

TabAddDiner == \E d \in Profiles : addDiner(d, "remote")
TabVote == \E d \in Profiles, s \in SwipeStatus : vote(d, "X", s)
PeerLoadParty == \E i \in SessionIds : peerLoadParty(i)
PeerVote == \E d \in Profiles, s \in SwipeStatus : peerVote(d, "X", s)

TwoTabNext ==
  \/ CreateParty
  \/ TabAddDiner
  \/ TabVote
  \/ PeerLoadParty
  \/ PeerVote

TwoTabSpec == Init /\ [][TwoTabNext]_vars

(***************************************************************************)
(* Random pick: WheelSpinner.spin and getRandomRestaurant                  *)
(***************************************************************************)
\* Math.random() returns k / RandomGrain for some k in Randoms
Randoms == 0..(RandomGrain - 1)

\* Math.floor(Math.random() * length)
randomIndex(k, length) == (k * length) \div RandomGrain

\* list[index] of a JavaScript array, index counted from 0
At(list, index) == IF index + 1 \in 1..Len(list) THEN list[index + 1] ELSE Undefined

\* spin: what is handed to onComplete
spinSelected(list, k) == At(list, randomIndex(k, Len(list)))

\* getRandomRestaurant
getRandomRestaurant(list, k) ==
  IF Len(list) = 0 THEN NoId ELSE At(list, randomIndex(k, Len(list)))

\* candidates of the first round a diner may have accepted
ShortlistCandidates == SeqRange(SubSeq(Deck, 1, MaxShortlist))

\* the wheel is mounted with a list of restaurants
mountWheel(list) ==
  /\ wheelRestaurants' = list
  /\ wheelOutcome' = NoOutcome
  /\ UNCHANGED <<store, page, history, peerParty, shortlist, groupVisits, route>>

\* spin, started by the mount effect, up to its onComplete call
spin(k) ==
  /\ wheelOutcome' = [call |-> "spin", result |-> spinSelected(wheelRestaurants, k)]
  /\ UNCHANGED <<store, page, history, peerParty, shortlist, wheelRestaurants, groupVisits, route>>

\* a call of getRandomRestaurant on the same list
callGetRandomRestaurant(k) ==
  /\ wheelOutcome' = [call |-> "getRandomRestaurant",
                      result |-> getRandomRestaurant(wheelRestaurants, k)]
  /\ UNCHANGED <<store, page, history, peerParty, shortlist, wheelRestaurants, groupVisits, route>>

\* arrays of distinct candidates of length n
RECURSIVE ListsOfLength(_)
ListsOfLength(n) ==
  IF n = 0 THEN {<<>>}
  ELSE {Append(l, r) : l \in ListsOfLength(n - 1), r \in ShortlistCandidates}

WheelLists ==
  {l \in UNION {ListsOfLength(n) : n \in 0..MaxShortlist} :
     \A i, j \in 1..Len(l) : l[i] = l[j] => i = j}

WheelInit ==
  /\ party = NULL
  /\ restaurants = <<>>
  /\ storage = [i \in InviteIds |-> NULL]
  /\ PageInit
  /\ ElsewhereInit
  /\ route = "/"

MountWheel == \E list \in WheelLists : mountWheel(list)
Spin == wheelOutcome = NoOutcome /\ \E k \in Randoms : spin(k)
CallGetRandomRestaurant == \E k \in Randoms : callGetRandomRestaurant(k)

WheelNext ==
  \/ MountWheel
  \/ Spin
  \/ CallGetRandomRestaurant

\* the random pick on its own, over every list of distinct candidates
WheelSpec == WheelInit /\ [][WheelNext]_vars

(***************************************************************************)
(* Shortlist page                                                          *)
(***************************************************************************)
maybeRestaurants ==
  IF isMultiDinerInPerson
    THEN getRestaurantsWithUnanimousMaybes
    ELSE getRestaurantsWithMaybeVotes

\* maybeRestaurants.filter(r => !eliminatedIds.has(r.id)), for a given set
\* mutation: the eliminated candidates are not filtered out
activeRestaurantsWith_ignoreEliminated(eliminated) == maybeRestaurants

activeRestaurantsWith(eliminated) ==
  LET NotEliminated(r) == r \notin eliminated
  IN SelectSeq(maybeRestaurants, NotEliminated)

activeRestaurants == activeRestaurantsWith(eliminatedIds)

handleStartElimination ==
  /\ shortlistPhase' = "elimination"
  /\ eliminatedIds' = {}
  /\ currentEliminatorIndex' = 0
  /\ UNCHANGED <<store, page, history, peerParty, selectedRestaurant, wheel,
                 groupVisits, route>>

\* handleEliminateRestaurant, then the winner effect on the next render
handleEliminateRestaurant(restaurantId, now) ==
  LET remaining == activeRestaurantsWith(eliminatedIds \cup {restaurantId})
  IN /\ eliminatedIds' = eliminatedIds \cup {restaurantId}
     /\ currentEliminatorIndex' = currentEliminatorIndex + 1
     /\ IF shortlistPhase = "elimination" /\ Len(remaining) = 1
          THEN /\ selectedRestaurant' = remaining[1]
               /\ Commit(setMatchParty(party, remaining[1], now))
               /\ shortlistPhase' = "winner"
          ELSE UNCHANGED <<party, storage, shortlistPhase, selectedRestaurant>>
     /\ UNCHANGED <<restaurants, page, history, peerParty, wheel, groupVisits, route>>

\* setPhase('view') of the Cancel button and of the header's back button
cancelElimination ==
  /\ shortlistPhase' = "view"
  /\ UNCHANGED <<store, page, history, peerParty, eliminatedIds,
                 currentEliminatorIndex, selectedRestaurant, wheel, groupVisits, route>>

\* handleSpinWheel: the wheel is rendered with activeRestaurants
shortlistHandleSpinWheel ==
  /\ shortlistPhase' = "spinWheel"
  /\ wheelRestaurants' = activeRestaurants
  /\ wheelOutcome' = NoOutcome
  /\ UNCHANGED <<store, page, history, peerParty, eliminatedIds,
                 currentEliminatorIndex, selectedRestaurant, groupVisits, route>>

\* the wheel stops and calls handleWheelComplete
shortlistHandleWheelComplete(k, now) ==
  LET selected == spinSelected(wheelRestaurants, k)
  IN /\ wheelOutcome' = [call |-> "spin", result |-> selected]
     /\ IF selected = Undefined
          \* restaurant.id throws on undefined: nothing after it runs
          THEN UNCHANGED <<party, storage, shortlistPhase, selectedRestaurant>>
          ELSE /\ selectedRestaurant' = selected
               /\ Commit(setMatchParty(party, selected, now))
               /\ shortlistPhase' = "winner"
     /\ UNCHANGED <<restaurants, page, history, peerParty, eliminatedIds,
                    currentEliminatorIndex, wheelRestaurants, groupVisits, route>>

\* the 'Choose ...!' button of a one-element unanimous shortlist
chooseOnlyRestaurant(now) ==
  /\ Commit(setMatchParty(party, maybeRestaurants[1], now))
  /\ UNCHANGED <<restaurants, page, history, elsewhere>>

\* a tap on a row of the list outside elimination mode
handleSelectRestaurant(restaurantId) ==
  /\ selectedRestaurant' = restaurantId
  /\ UNCHANGED <<store, page, history, peerParty, shortlistPhase, eliminatedIds,
                 currentEliminatorIndex, wheel, groupVisits, route>>

\* mutation: the button confirms the first candidate of the deck
handleConfirmChoice_firstOfDeck(now) ==
  IF selectedRestaurant # NoId
    THEN /\ Commit(setMatchParty(party, restaurants[1], now))
         /\ UNCHANGED <<restaurants, page, history, elsewhere>>
    ELSE UNCHANGED vars

\* the 'Choose ...' button of a single diner
handleConfirmChoice(now) ==
  IF selectedRestaurant # NoId
    THEN /\ Commit(setMatchParty(party, selectedRestaurant, now))
         /\ UNCHANGED <<restaurants, page, history, elsewhere>>
    ELSE UNCHANGED vars

\* the ledger after round one: both diners voted on the first
\* RESTAURANTS_PER_ROUND candidates, 'maybe' on those in their set
roundOneVotes(roster, accepted) ==
  [r \in SeqRange(SubSeq(Deck, 1, RESTAURANTS_PER_ROUND)) |->
     [d \in RosterIds([selectedDiners |-> roster]) |->
        IF r \in accepted[d] THEN "maybe" ELSE "no"]]

\* the shortlist page is opened from the round-end screen of round one
ShortlistInit ==
  /\ \E accepted \in [{"A", "B"} -> SUBSET ShortlistCandidates] :
       LET roster == <<[profileId |-> "A", mode |-> "inPerson"],
                       [profileId |-> "B", mode |-> "inPerson"]>>
       IN party = [NewParty("inv1") EXCEPT
                     !.selectedDiners = roster,
                     !.votes = roundOneVotes(roster, accepted),
                     !.currentRestaurantIndex = RESTAURANTS_PER_ROUND,
                     !.currentInPersonDinerIndex = 1]
  /\ storage = [i \in InviteIds |-> IF i = party.inviteId THEN JSONstringify(party) ELSE NULL]
  /\ restaurants = Deck
  /\ phase = roundEndEffect("swiping", party)
  /\ isInPersonReady = FALSE
  /\ roundStartIndex = 0
  /\ turnLog = <<>>
  /\ prevTurnLog = <<>>
  /\ ElsewhereInit
  /\ route = "/shortlist"

\* the buttons are rendered when the shortlist is not empty
HandleStartElimination ==
  /\ shortlistPhase = "view"
  /\ isMultiDinerInPerson
  /\ Len(maybeRestaurants) > 1
  /\ handleStartElimination

HandleEliminateRestaurant ==
  /\ shortlistPhase = "elimination"
  /\ \E r \in SeqRange(activeRestaurants), now \in Times :
       handleEliminateRestaurant(r, now)

CancelElimination == shortlistPhase = "elimination" /\ cancelElimination

ShortlistHandleSpinWheel ==
  /\ \/ shortlistPhase = "view" /\ Len(maybeRestaurants) > 1
     \/ shortlistPhase = "elimination" /\ Len(maybeRestaurants) > 0
  /\ shortlistHandleSpinWheel

ShortlistHandleWheelComplete ==
  /\ shortlistPhase = "spinWheel"
  /\ \E k \in Randoms, now \in Times : shortlistHandleWheelComplete(k, now)

ChooseOnlyRestaurant ==
  /\ shortlistPhase = "view"
  /\ isMultiDinerInPerson
  /\ Len(maybeRestaurants) = 1
  /\ \E now \in Times : chooseOnlyRestaurant(now)

\* the rows show maybeRestaurants while the page is in view mode
HandleSelectRestaurant ==
  /\ party # NULL
  /\ shortlistPhase = "view"
  /\ \E r \in SeqRange(maybeRestaurants) : handleSelectRestaurant(r)

\* rendered for a single diner with a shortlist, disabled without a selection
HandleConfirmChoice ==
  /\ party # NULL
  /\ shortlistPhase = "view"
  /\ Len(maybeRestaurants) > 0
  /\ isSingleDiner
  /\ selectedRestaurant # NoId
  /\ \E now \in Times : handleConfirmChoice(now)

ShortlistNext ==
  \/ HandleStartElimination
  \/ HandleEliminateRestaurant
  \/ CancelElimination
  \/ ShortlistHandleSpinWheel
  \/ ShortlistHandleWheelComplete
  \/ ChooseOnlyRestaurant

ShortlistSpec == ShortlistInit /\ [][ShortlistNext]_vars

(***************************************************************************)
(* Swipe page and shortlist page together: the wheel of the swipe page,    *)
(* the way to the shortlist page and back                                  *)
(***************************************************************************)
MIN_SWIPES_FOR_SHORTLIST == 10

canViewShortlist == swipeCount >= MIN_SWIPES_FOR_SHORTLIST
maybeCount == Len(getRestaurantsWithMaybeVotes)
unanimousCount == Len(getRestaurantsWithUnanimousMaybes)

\* the screens of the swipe page, in the order the render tests them
RoundEndScreen == phase = "roundEnd"
EndOfDeckScreen == phase = "swiping" /\ currentRestaurant = NoId
CardScreen == ~RoundEndScreen /\ ~EndOfDeckScreen /\ phase # "spinWheel"

\* mutation: the wheel is started whatever the shortlist holds
swipeHandleSpinWheel_noGuard ==
  /\ phase' = "spinWheel"
  /\ wheelRestaurants' = maybeRestaurants
  /\ wheelOutcome' = NoOutcome
  /\ UNCHANGED <<store, isInPersonReady, roundStartIndex, history, peerParty,
                 shortlist, groupVisits, route>>

\* handleSpinWheel of the swipe page; in the 'spinWheel' phase the page
\* renders the wheel with the same list
swipeHandleSpinWheel ==
  IF Len(maybeRestaurants) > 0
    THEN /\ phase' = "spinWheel"
         /\ wheelRestaurants' = maybeRestaurants
         /\ wheelOutcome' = NoOutcome
         /\ UNCHANGED <<store, isInPersonReady, roundStartIndex, history, peerParty,
                        shortlist, groupVisits, route>>
    \* alert('No restaurants made it to your shortlist yet!')
    ELSE UNCHANGED vars

\* the wheel stops and calls handleWheelComplete of the swipe page
swipeHandleWheelComplete(k, now) ==
  LET selected == spinSelected(wheelRestaurants, k)
  IN /\ wheelOutcome' = [call |-> "spin", result |-> selected]
     /\ IF selected = Undefined
          \* restaurant.id throws on undefined: nothing after it runs
          THEN UNCHANGED <<party, storage, phase>>
          ELSE /\ Commit(setMatchParty(party, selected, now))
               /\ phase' = "matched"
     /\ UNCHANGED <<restaurants, isInPersonReady, roundStartIndex, history, peerParty,
                    shortlist, wheelRestaurants, groupVisits, route>>

\* router.push('/shortlist'): the swipe page unmounts, the shortlist page
\* mounts with its initial state
openShortlist ==
  /\ route' = "/shortlist"
  /\ phase' = "swiping"
  /\ isInPersonReady' = FALSE
  /\ roundStartIndex' = 0
  /\ shortlistPhase' = "view"
  /\ eliminatedIds' = {}
  /\ currentEliminatorIndex' = 0
  /\ selectedRestaurant' = NoId
  /\ UNCHANGED <<store, history, peerParty, wheel, groupVisits>>

\* handleContinueSwiping and the header's back button: router.push('/swipe'),
\* the shortlist page unmounts and the swipe page mounts
handleContinueSwiping ==
  /\ route' = "/swipe"
  /\ enterSwipePage(party)
  /\ shortlistPhase' = "view"
  /\ eliminatedIds' = {}
  /\ currentEliminatorIndex' = 0
  /\ selectedRestaurant' = NoId
  /\ UNCHANGED <<store, history, peerParty, wheel, groupVisits>>

\* 'Let Fate Decide' of the round-end screen and of the end-of-deck screens,
\* 'Can't decide? Let Fate Choose' under the card
SwipeHandleSpinWheel ==
  /\ party # NULL
  /\ Len(restaurants) > 0
  /\ \/ RoundEndScreen /\ unanimousCount > 0
     \/ EndOfDeckScreen /\ isMultiDinerInPerson
     \/ EndOfDeckScreen /\ ~isMultiDinerInPerson /\ isSingleDiner /\ maybeCount > 0
     \/ CardScreen
  /\ swipeHandleSpinWheel

SwipeHandleWheelComplete ==
  /\ phase = "spinWheel"
  /\ wheelOutcome = NoOutcome
  /\ \E k \in Randoms, now \in Times : swipeHandleWheelComplete(k, now)

\* the 'View Shortlist' buttons
OpenShortlist ==
  /\ party # NULL
  /\ Len(restaurants) > 0
  /\ \/ RoundEndScreen /\ unanimousCount > 0
     \/ EndOfDeckScreen /\ isMultiDinerInPerson /\ unanimousCount > 0
     \/ EndOfDeckScreen /\ ~isMultiDinerInPerson /\ isSingleDiner /\ maybeCount > 0
     \/ /\ CardScreen
        /\ canViewShortlist
        /\ IF isMultiDinerInPerson THEN unanimousCount > 0 ELSE maybeCount > 0
  /\ openShortlist

HandleContinueSwiping == shortlistPhase = "view" /\ handleContinueSwiping

\* the swipe page is entered with a fresh party, or the shortlist page after a
\* round one in which both diners accepted the same candidates
TieBreakInit ==
  \/ SmallTableInit
  \/ /\ ShortlistInit
     /\ getRestaurantsWithUnanimousMaybes = getRestaurantsWithMaybeVotes

TieBreakNext ==
  \/ route = "/swipe" /\ HandleVote
  \/ route = "/swipe" /\ HandleInPersonReady
  \/ route = "/swipe" /\ HandleContinueRound
  \/ route = "/swipe" /\ SwipeHandleSpinWheel
  \/ route = "/swipe" /\ SwipeHandleWheelComplete
  \/ route = "/swipe" /\ OpenShortlist
  \/ route = "/shortlist" /\ HandleStartElimination
  \/ route = "/shortlist" /\ HandleEliminateRestaurant
  \/ route = "/shortlist" /\ CancelElimination
  \/ route = "/shortlist" /\ ShortlistHandleSpinWheel
  \/ route = "/shortlist" /\ ShortlistHandleWheelComplete
  \/ route = "/shortlist" /\ ChooseOnlyRestaurant
  \/ route = "/shortlist" /\ HandleContinueSwiping

\* every way the two pages offer to a resolution
TieBreakSpec == TieBreakInit /\ [][TieBreakNext]_vars

\* the two pages with the single diner's pick from the shortlist
ChoiceNext ==
  \/ route = "/swipe" /\ HandleVote
  \/ route = "/swipe" /\ HandleInPersonReady
  \/ route = "/swipe" /\ HandleContinueRound
  \/ route = "/swipe" /\ SwipeHandleSpinWheel
  \/ route = "/swipe" /\ SwipeHandleWheelComplete
  \/ route = "/swipe" /\ OpenShortlist
  \/ route = "/shortlist" /\ HandleStartElimination
  \/ route = "/shortlist" /\ HandleEliminateRestaurant
  \/ route = "/shortlist" /\ CancelElimination
  \/ route = "/shortlist" /\ ShortlistHandleSpinWheel
  \/ route = "/shortlist" /\ ShortlistHandleWheelComplete
  \/ route = "/shortlist" /\ ChooseOnlyRestaurant
  \/ route = "/shortlist" /\ HandleSelectRestaurant
  \/ route = "/shortlist" /\ HandleConfirmChoice
  \/ route = "/shortlist" /\ HandleContinueSwiping

ChoiceSpec == TieBreakInit /\ [][ChoiceNext]_vars

(***************************************************************************)
(* Claims, store level                                                     *)
(***************************************************************************)

\* a step that stays within one session: there is a party before and after,
\* and the step is not a createParty call
SameSession == party # NULL /\ party' # NULL /\ ~CreateParty

\* C1: over any sequence of operations on one session the match, once set,
\* never returns to unset and never changes to a different candidate id
C1_MatchSetAtMostOnce ==
  [][(SameSession /\ party.matchedRestaurantId # NoId)
       => party'.matchedRestaurantId = party.matchedRestaurantId]_vars

\* C2: setMatch on a session whose match is already set leaves
\* matchedRestaurantId and matchedAt exactly as they were
C2_SecondResolveRejected ==
  [][\A r \in RestaurantIds, t \in Times :
       (party # NULL /\ party.matchedRestaurantId # NoId /\ setMatch(r, t))
         => /\ party'.matchedRestaurantId = party.matchedRestaurantId
            /\ party'.matchedAt = party.matchedAt]_vars

\* C3: checkForMatch(c) is true iff the current roster is non-empty and every
\* diner currently in the roster has the ledger entry 'maybe' for c
C3_CheckForMatchIffUnanimous ==
  party # NULL =>
    \A c \in RestaurantIds :
      checkForMatch(c) <=>
        /\ RosterIds(party) # {}
        /\ \A d \in RosterIds(party) : getVote(d, c) = "maybe"

\* the spec's fixture: A accepted X, B rejected X, B was removed
C3_Witness ==
  /\ party # NULL
  /\ RosterIds(party) = {"A"}
  /\ getVote("A", "X") = "maybe"
  /\ getVote("B", "X") = "no"
  /\ checkForMatch("X")

\* roster diners whose ledger entry for c is 'maybe'
AcceptedBy(p, c) == {d \in RosterIds(p) : Lookup(VotesOrEmpty(p, c), d) = "maybe"}

\* C4: an Accept vote of roster diner d on c makes checkForMatch(c) true
\* exactly when it is the last one missing: false while some other roster
\* diner has not accepted c, true once every roster diner has
C4_LastAcceptCompletesMatch ==
  [][\A d \in Profiles, c \in RestaurantIds :
       (party # NULL /\ d \in RosterIds(party) /\ vote(d, c, "maybe"))
         => (checkForMatch(c)' <=> AcceptedBy(party, c) \cup {d} = RosterIds(party))]_vars

\* two roster diners have both accepted X
C4_Witness ==
  /\ party # NULL
  /\ Len(party.selectedDiners) = 2
  /\ AcceptedBy(party, "X") = RosterIds(party)
  /\ checkForMatch("X")

\* C5: every candidate returned by getRestaurantsWithUnanimousMaybes is also
\* returned by getRestaurantsWithMaybeVotes
C5_UnanimousSubsetOfMaybe ==
  SeqRange(getRestaurantsWithUnanimousMaybes) \subseteq SeqRange(getRestaurantsWithMaybeVotes)

\* C6: a candidate of the candidate sequence is in the unanimous shortlist
\* iff checkForMatch is true for it
C6_UnanimousShortlistIsCheckForMatch ==
  \A c \in SeqRange(restaurants) :
    c \in SeqRange(getRestaurantsWithUnanimousMaybes) <=> checkForMatch(c)

\* C7: a vote whose dinerId is not in the current roster leaves the ledger
\* unchanged
C7_NonRosterVoteRejected ==
  [][\A d \in Profiles, c \in RestaurantIds, st \in SwipeStatus :
       (party # NULL /\ d \notin RosterIds(party) /\ vote(d, c, st))
         => party'.votes = party.votes]_vars

\* C8: the roster never holds two entries with the same diner id, and
\* addDiner for an id already present leaves the roster unchanged
C8_RosterIdsUnique ==
  /\ [](party # NULL =>
          \A i, j \in 1..Len(party.selectedDiners) :
            party.selectedDiners[i].profileId = party.selectedDiners[j].profileId => i = j)
  /\ [][\A d \in Profiles, m \in AttendanceMode :
          (party # NULL /\ d \in RosterIds(party) /\ addDiner(d, m))
            => party'.selectedDiners = party.selectedDiners]_vars

\* two diners joined, the first one switched to in-person: a repeated
\* addDiner (default mode remote) would show
C8_Witness ==
  /\ party # NULL
  /\ Len(party.selectedDiners) = 2
  /\ party.selectedDiners[1].mode = "inPerson"

\* C9: removeDiner(d) removes d's entry from the roster and changes nothing
\* else: ledger, cursor, rotation index, round-start index and match stay
C9_RemoveDinerChangesOnlyRoster ==
  [][\A d \in Profiles :
       (party # NULL /\ removeDiner(d))
         => /\ party'.votes = party.votes
            /\ party'.currentRestaurantIndex = party.currentRestaurantIndex
            /\ party'.currentInPersonDinerIndex = party.currentInPersonDinerIndex
            /\ party'.inPersonDinerStartIndex = party.inPersonDinerStartIndex
            /\ party'.matchedRestaurantId = party.matchedRestaurantId
            /\ party'.matchedAt = party.matchedAt
            /\ RosterIds(party') = RosterIds(party) \ {d}]_vars

\* a diner who voted is no longer on the roster while another diner is, with
\* cursor, rotation index and match all set
C9_Witness ==
  /\ party # NULL
  /\ RosterIds(party) = {"A"}
  /\ "B" \in DOMAIN VotesOrEmpty(party, "X")
  /\ "A" \in DOMAIN VotesOrEmpty(party, "X")
  /\ party.currentRestaurantIndex > 0
  /\ party.matchedRestaurantId # NoId

(***************************************************************************)
(* Claims, swipe page                                                      *)
(***************************************************************************)
IsPrefix(a, b) == Len(a) <= Len(b) /\ SubSeq(b, 1, Len(a)) = a

\* the in-person diner at the rotation index casts the vote that completes
\* the batch of their turn, and is not the last in-person diner
BatchCompletingVote ==
  /\ HandleVote
  /\ isMultiDinerInPerson
  /\ Len(turnLog) = RESTAURANTS_PER_ROUND - 1
  /\ party.currentInPersonDinerIndex < Len(inPersonDiners) - 1

\* C10: when in-person diner k < N-1 casts the B-th vote of the turn, the
\* rotation index becomes k+1 and the cursor is reset to the round-start
\* index; diner k+1 is presented the candidates diner k voted on, in the
\* same order; within one diner's turn the cursor never decreases
C10_BatchRotation ==
  /\ [][BatchCompletingVote =>
          /\ party'.currentInPersonDinerIndex = party.currentInPersonDinerIndex + 1
          /\ party'.currentRestaurantIndex = party.inPersonDinerStartIndex
          /\ party'.inPersonDinerStartIndex = party.inPersonDinerStartIndex
          /\ prevTurnLog' = SubSeq(restaurants, party.inPersonDinerStartIndex + 1,
                                   party.inPersonDinerStartIndex + RESTAURANTS_PER_ROUND)]_vars
  /\ []((isMultiDinerInPerson /\ party.currentInPersonDinerIndex > 0) =>
          /\ Len(prevTurnLog) = RESTAURANTS_PER_ROUND
          /\ IsPrefix(turnLog, prevTurnLog)
          /\ Len(turnLog) < RESTAURANTS_PER_ROUND =>
               currentRestaurant = prevTurnLog[Len(turnLog) + 1])
  /\ [][(party # NULL /\ party' # NULL
           /\ party'.currentInPersonDinerIndex = party.currentInPersonDinerIndex)
          => party'.currentRestaurantIndex >= party.currentRestaurantIndex]_vars

\* the second of three in-person diners has just been handed the phone
C10_Witness ==
  /\ isMultiDinerInPerson
  /\ Len(inPersonDiners) = 3
  /\ party.currentInPersonDinerIndex = 1
  /\ party.currentRestaurantIndex = party.inPersonDinerStartIndex
  /\ Len(prevTurnLog) = RESTAURANTS_PER_ROUND
  /\ turnLog = <<>>
  /\ ~isInPersonReady

(***************************************************************************)
(* Claims, swipe page: rounds and handoff                                  *)
(***************************************************************************)
\* the page shows the round-end screen
RoundComplete == phase = "roundEnd"

\* the page is swiping and waits for the 'ready' of an in-person diner
HandoffPending == phase = "swiping" /\ CardShown /\ needsInPersonHandoff

\* the page is swiping and takes votes
AwaitingVote == phase = "swiping" /\ CardShown /\ ~needsInPersonHandoff

\* a vote that is the B-th of the batch of the voting in-person diner
LastVoteOfBatch ==
  /\ party.currentRestaurantIndex + 1 - party.inPersonDinerStartIndex
       = RESTAURANTS_PER_ROUND
  /\ HandleVote

\* with at least minN in-person diners in a roster of two or more, the B-th
\* vote of the diner with rotation index N-1 enters RoundComplete
LastDinerEntersRoundComplete(minN) ==
  (/\ Len(party.selectedDiners) >= 2
   /\ Len(inPersonDiners) >= minN
   /\ party.currentInPersonDinerIndex = Len(inPersonDiners) - 1
   /\ LastVoteOfBatch)
  => RoundComplete'

\* ... and the B-th vote of an earlier diner enters HandoffPending
EarlierDinerEntersHandoff(minN) ==
  (/\ Len(party.selectedDiners) >= 2
   /\ Len(inPersonDiners) >= minN
   /\ party.currentInPersonDinerIndex < Len(inPersonDiners) - 1
   /\ LastVoteOfBatch)
  => (HandoffPending' /\ ~RoundComplete')

\* no other vote enters RoundComplete
OnlyLastDinerEntersRoundComplete ==
  (~RoundComplete /\ RoundComplete' /\ HandleVote)
  => (/\ LastVoteOfBatch
      /\ party.currentInPersonDinerIndex = Len(inPersonDiners) - 1)

\* RoundComplete is shown only while the last diner's batch is complete
RoundCompleteOnlyAfterLastBatch ==
  RoundComplete =>
    /\ party.currentInPersonDinerIndex = Len(inPersonDiners) - 1
    /\ party.currentRestaurantIndex - party.inPersonDinerStartIndex
         >= RESTAURANTS_PER_ROUND

C12_VoteIgnoredWhileHandoffPending ==
  /\ [][(HandoffPending /\ HandleVote) =>
          /\ party'.votes = party.votes
          /\ party'.currentRestaurantIndex = party.currentRestaurantIndex
          /\ party'.currentInPersonDinerIndex = party.currentInPersonDinerIndex]_vars
  /\ [][(/\ HandoffPending
         /\ AwaitingVote'
         /\ party'.selectedDiners = party.selectedDiners)
        => HandleInPersonReady]_vars

(***************************************************************************)
(* Claims, shortlist page and random pick                                  *)
(***************************************************************************)
\* C13: elimination on a shortlist of size M >= 2 removes exactly one active
\* candidate per turn; while it runs at least two candidates are active and
\* M minus the number eliminated are left; the turn that makes M-1
\* eliminations leaves exactly one active candidate, never eliminated, and
\* sets it as the match; no earlier turn ends elimination or sets a match
C13_EliminationEndsWithOneSurvivor ==
  /\ [](shortlistPhase = "elimination" =>
          /\ Len(maybeRestaurants) >= 2
          /\ eliminatedIds \subseteq SeqRange(maybeRestaurants)
          /\ Len(activeRestaurants) = Len(maybeRestaurants) - Cardinality(eliminatedIds)
          /\ Len(activeRestaurants) >= 2)
  /\ [][HandleEliminateRestaurant =>
          /\ Cardinality(eliminatedIds') = Cardinality(eliminatedIds) + 1
          /\ eliminatedIds \subseteq eliminatedIds'
          /\ eliminatedIds' \subseteq SeqRange(maybeRestaurants)
          /\ IF Cardinality(eliminatedIds') = Len(maybeRestaurants) - 1
               THEN /\ shortlistPhase' = "winner"
                    /\ Len(activeRestaurants') = 1
                    /\ activeRestaurants'[1] \notin eliminatedIds'
                    /\ party'.matchedRestaurantId = activeRestaurants'[1]
               ELSE /\ shortlistPhase' = "elimination"
                    /\ party'.matchedRestaurantId = party.matchedRestaurantId]_vars

\* four candidates on the shortlist, three eliminated, the fourth matched
C13_Witness ==
  /\ shortlistPhase = "winner"
  /\ wheelOutcome = NoOutcome
  /\ Len(maybeRestaurants) = 4
  /\ Cardinality(eliminatedIds) = 3
  /\ party.matchedRestaurantId = activeRestaurants[1]

\* C14: a completed random pick over a one-element list produced that
\* element, over a non-empty list a member of the list, and over an empty
\* list neither no candidate (null) nor an undefined candidate
C14_RandomPickRejectsEmpty ==
  wheelOutcome.call # "none" =>
    /\ Len(wheelRestaurants) = 1 => wheelOutcome.result = wheelRestaurants[1]
    /\ Len(wheelRestaurants) > 0 => wheelOutcome.result \in SeqRange(wheelRestaurants)
    /\ Len(wheelRestaurants) = 0 => wheelOutcome.result \notin {NoId, Undefined}

(***************************************************************************)
(* Claims, session lifecycle                                               *)
(***************************************************************************)
\* C15: createParty, from any prior state, yields a party with cursor 0,
\* rotation index 0, round-start index 0, empty roster, empty ledger and no
\* match, and empties the loaded candidate list
C15_CreatePartyStartsFresh ==
  [][\A i \in InviteIds :
       createParty(i) =>
         /\ party'.inviteId = i
         /\ party'.currentRestaurantIndex = 0
         /\ party'.currentInPersonDinerIndex = 0
         /\ party'.inPersonDinerStartIndex = 0
         /\ party'.selectedDiners = <<>>
         /\ party'.votes = EmptyObject
         /\ party'.matchedRestaurantId = NoId
         /\ party'.matchedAt = NoTime
         /\ restaurants' = <<>>]_vars

\* a fresh party inv2 without candidates, created after inv1 had a diner, a
\* vote, a moved cursor and a match
C15_Witness ==
  /\ party = NewParty("inv2")
  /\ restaurants = <<>>
  /\ storage["inv1"] # NULL
  /\ JSONparse(storage["inv1"]).currentRestaurantIndex > 0
  /\ JSONparse(storage["inv1"]).selectedDiners # <<>>
  /\ JSONparse(storage["inv1"]).votes # EmptyObject
  /\ JSONparse(storage["inv1"]).matchedRestaurantId # NoId

\* C16: loadParty for an invite id with nothing stored returns null and
\* leaves party and candidates unchanged; for a stored id it returns and
\* makes current the party as persisted, and storage is not written; the
\* record persisted for the current party is the party in memory
C16_LoadPartyFoundOrUnchanged ==
  /\ [][\A i \in InviteIds :
          loadParty(i) =>
            /\ storage' = storage
            /\ restaurants' = restaurants
            /\ IF storage[i] = NULL
                 THEN /\ loadPartyResult(storage, i) = NULL
                      /\ party' = party
                 ELSE /\ loadPartyResult(storage, i) = party'
                      /\ party'.inviteId = i
                      /\ JSONstringify(party') = storage[i]]_vars
  /\ [](party # NULL => /\ storage[party.inviteId] # NULL
                        /\ JSONparse(storage[party.inviteId]) = party)

\* party inv1 is current while the candidates searched for inv2 are loaded:
\* inv1 was made current by loadParty
C16_Witness ==
  /\ party # NULL
  /\ party.inviteId = "inv1"
  /\ party.votes # EmptyObject
  /\ restaurants = SearchResults["inv2"]
  /\ storage["inv2"] # NULL

(***************************************************************************)
(* Claims, store level: what a session admits once voting or a match       *)
(* has happened                                                            *)
(***************************************************************************)
\* C17: once the match is set no step within the session changes the roster,
\* the ledger, the cursor, the rotation index or the round-start index
C17_ReadOnlyAfterMatch ==
  [][(SameSession /\ party.matchedRestaurantId # NoId) =>
       /\ party'.selectedDiners = party.selectedDiners
       /\ party'.votes = party.votes
       /\ party'.currentRestaurantIndex = party.currentRestaurantIndex
       /\ party'.currentInPersonDinerIndex = party.currentInPersonDinerIndex
       /\ party'.inPersonDinerStartIndex = party.inPersonDinerStartIndex]_vars

\* a vote has been cast or the cursor has moved
VotingStarted ==
  /\ party # NULL
  /\ (party.votes # EmptyObject \/ party.currentRestaurantIndex > 0)

\* C18: once voting has started no step within the session changes the
\* attendance mode of a diner on the roster
C18_ModeFrozenOnceVotingStarted ==
  [][(SameSession /\ VotingStarted) =>
       \A i \in 1..Len(party.selectedDiners), j \in 1..Len(party'.selectedDiners) :
         party'.selectedDiners[j].profileId = party.selectedDiners[i].profileId
           => party'.selectedDiners[j].mode = party.selectedDiners[i].mode]_vars

(***************************************************************************)
(* Claims, two tabs                                                        *)
(***************************************************************************)
\* the vote of diner d on candidate r in the party persisted under id i
persistedVote(i, r, d) ==
  IF storage[i] = NULL THEN Undefined
  ELSE Lookup(VotesOrEmpty(JSONparse(storage[i]), r), d)

\* C19: a vote written by either tab changes only its own (candidate, diner)
\* cell of the persisted session: the persisted votes of the other diners stay
C19_VoteWritesOnlyItsCell ==
  [][\A d \in Profiles, s \in SwipeStatus :
       /\ peerVote(d, "X", s) =>
            \A other \in Profiles \ {d} :
              persistedVote(peerParty.inviteId, "X", other)'
                = persistedVote(peerParty.inviteId, "X", other)
       /\ (party # NULL /\ vote(d, "X", s)) =>
            \A other \in Profiles \ {d} :
              persistedVote(party.inviteId, "X", other)'
                = persistedVote(party.inviteId, "X", other)]_vars

(***************************************************************************)
(* Claims, ledger                                                          *)
(***************************************************************************)
\* the cells of the ledger of p: <<candidate, diner>> pairs that have an entry
Cells(p) == UNION {{<<r, d>> : d \in DOMAIN p.votes[r]} : r \in DOMAIN p.votes}

unvotedPositions ==
  {i \in 1..Len(party.selectedDiners) :
     Lookup(currentVotes, party.selectedDiners[i].profileId) \in {Undefined, "unknown"}}

\* the diners a swipe may be attributed to: the in-person diner at the
\* rotation index when an in-person diner exists (any in-person diner when
\* the index points at none), else the sole diner, else the first roster
\* member without a vote on the current candidate (any roster member when all
\* of them have voted)
attributedDiners ==
  IF Len(inPersonDiners) > 0
    THEN {inPersonDiners[i].profileId :
            i \in IF party.currentInPersonDinerIndex + 1 \in 1..Len(inPersonDiners)
                    THEN {party.currentInPersonDinerIndex + 1}
                    ELSE 1..Len(inPersonDiners)}
  ELSE IF Len(party.selectedDiners) = 1
    THEN {party.selectedDiners[1].profileId}
  ELSE IF unvotedPositions = {}
    THEN RosterIds(party)
  ELSE {party.selectedDiners[i].profileId :
          i \in {j \in unvotedPositions : \A k \in unvotedPositions : j <= k}}

\* C21: a swipe writes only the cell of the current candidate that belongs to
\* the current in-person diner if an in-person diner exists, else to the sole
\* diner, else to the first roster member without a vote on the candidate
C21_SwipeAttribution ==
  [][HandleVote =>
       \A cell \in Cells(party') :
         (cell \notin Cells(party)
            \/ party'.votes[cell[1]][cell[2]] # party.votes[cell[1]][cell[2]])
         => /\ cell[1] = currentRestaurant
            /\ cell[2] \in attributedDiners]_vars

\* no diner on the roster attends in person
NoInPersonDiners == party # NULL /\ Len(inPersonDiners) = 0

\* the walk has passed the last candidate
Exhausted == party # NULL /\ party.currentRestaurantIndex = Len(restaurants)

\* the step leaves the session matched on the candidate it voted on, by the
\* unanimous Accept of the roster, with the cursor where it was
ProducesMatch ==
  /\ checkForMatchIn(party', currentRestaurant)
  /\ party'.matchedRestaurantId = currentRestaurant
  /\ phase' = "matched"
  /\ party'.currentRestaurantIndex = party.currentRestaurantIndex

\* C22: without in-person diners every vote either produces a unanimous
\* match or advances the cursor by exactly one, and once the cursor equals the
\* number of candidates no step changes the ledger or the cursor
C22_VoteAdvancesByOneUntilExhausted ==
  /\ [][(NoInPersonDiners /\ HandleVote) =>
          \/ ProducesMatch
          \/ party'.currentRestaurantIndex = party.currentRestaurantIndex + 1]_vars
  /\ [][(NoInPersonDiners /\ Exhausted) =>
          /\ party'.votes = party.votes
          /\ party'.currentRestaurantIndex = party.currentRestaurantIndex]_vars

\* two remote diners walked through the whole deck: every candidate has the
\* vote of the first of them and the walk is exhausted
C22_Witness ==
  /\ NoInPersonDiners
  /\ Len(party.selectedDiners) = 2
  /\ Exhausted
  /\ Len(restaurants) > 0
  /\ \A i \in 1..Len(restaurants) :
       Lookup(VotesOrEmpty(party, restaurants[i]), "A") \in SwipeStatus

\* C23: with exactly one diner on the roster, in either mode, the page is
\* never in HandoffPending or RoundComplete, and every vote either produces a
\* match or advances the cursor by one
C23_SoloSkipsHandoff ==
  /\ [](isSingleDiner => ~HandoffPending /\ ~RoundComplete)
  /\ [][(isSingleDiner /\ HandleVote) =>
          \/ ProducesMatch
          \/ party'.currentRestaurantIndex = party.currentRestaurantIndex + 1]_vars

\* the roster is the 'Just Browsing' profile alone
BrowseOnlySession ==
  /\ party # NULL
  /\ Len(party.selectedDiners) = 1
  /\ party.selectedDiners[1].profileId = JustBrowsingId

\* the roster is one diner with a profile of their own
OrdinarySoloSession ==
  /\ party # NULL
  /\ Len(party.selectedDiners) = 1
  /\ party.selectedDiners[1].profileId # JustBrowsingId

\* the step records an Accept of the sole diner on the current candidate
SoloAccept ==
  /\ HandleVote
  /\ Lookup(VotesOrEmpty(party', currentRestaurant), party.selectedDiners[1].profileId)
       = "maybe"

\* C24: in a browse-only session every vote, Accept included, advances the
\* cursor by one and leaves match unset; for an ordinary solo diner an Accept
\* sets match to the current candidate
C24_BrowseOnlyNeverMatches ==
  /\ [][(BrowseOnlySession /\ HandleVote) =>
          /\ party'.currentRestaurantIndex = party.currentRestaurantIndex + 1
          /\ party'.matchedRestaurantId = NoId
          /\ party'.matchedAt = NoTime]_vars
  /\ [][(OrdinarySoloSession /\ SoloAccept) =>
          /\ party'.matchedRestaurantId = currentRestaurant
          /\ party'.matchedAt # NoTime
          /\ party'.currentRestaurantIndex = party.currentRestaurantIndex]_vars

\* the browse-only diner accepted the first candidate and the walk moved on
\* without a match
C24_Witness ==
  /\ BrowseOnlySession
  /\ party.currentRestaurantIndex = 1
  /\ Lookup(VotesOrEmpty(party, restaurants[1]), JustBrowsingId) = "maybe"
  /\ party.matchedRestaurantId = NoId

\* C25: continuing from RoundComplete sets the round-start index to the
\* cursor and the rotation index to 0, keeps cursor and ledger, and leaves the
\* page in HandoffPending for the first in-person diner, whose batch starts
\* right after the window of the round that ended
C25_ContinueStartsNewRound ==
  [][(RoundComplete /\ HandleContinueRound) =>
       /\ roundStartIndex' = party.currentRestaurantIndex
       /\ party'.currentInPersonDinerIndex = 0
       /\ party'.currentRestaurantIndex = party.currentRestaurantIndex
       /\ party'.votes = party.votes
       /\ HandoffPending'
       /\ currentInPersonDiner' = inPersonDiners[1]
       /\ party'.inPersonDinerStartIndex
            = party.inPersonDinerStartIndex + RESTAURANTS_PER_ROUND
       /\ currentRestaurant' = restaurants[party'.inPersonDinerStartIndex + 1]]_vars

\* the second round has just been started: both in-person diners voted on the
\* first window and the first of them is asked to take the phone
C25_Witness ==
  /\ party # NULL
  /\ roundStartIndex = RESTAURANTS_PER_ROUND
  /\ party.inPersonDinerStartIndex = RESTAURANTS_PER_ROUND
  /\ party.currentRestaurantIndex = RESTAURANTS_PER_ROUND
  /\ party.currentInPersonDinerIndex = 0
  /\ HandoffPending
  /\ \A i \in 1..RESTAURANTS_PER_ROUND :
       DOMAIN VotesOrEmpty(party, restaurants[i]) = {"A", "B"}

(***************************************************************************)
(* Claims, shortlist page: elimination and the wheel                       *)
(***************************************************************************)
\* C26: a candidate that has left the active set of the shortlist page is
\* never in it again, whatever step follows, cancelling and starting
\* elimination included
C26_EliminatedNeverReturns ==
  [][\A r \in SeqRange(activeRestaurants') : r \in SeqRange(activeRestaurants)]_vars

\* a wheel is on screen
WheelStarted ==
  \/ route = "/swipe" /\ phase = "spinWheel"
  \/ route = "/shortlist" /\ shortlistPhase = "spinWheel"

\* C27: whenever the wheel of the swipe page or of the shortlist page is
\* started the list handed to it is not empty, and no spin completes with an
\* undefined candidate
C27_WheelListNeverEmpty ==
  /\ WheelStarted => Len(wheelRestaurants) > 0
  /\ wheelOutcome.call = "spin" => wheelOutcome.result # Undefined

\* two in-person diners reached the end of the deck and let the wheel of the
\* swipe page pick the match among the candidates both accepted
C27_Witness ==
  /\ route = "/swipe"
  /\ isMultiDinerInPerson
  /\ party.currentRestaurantIndex = Len(restaurants)
  /\ wheelOutcome.call = "spin"
  /\ Len(wheelRestaurants) > 1
  /\ party.matchedRestaurantId = wheelOutcome.result
  /\ phase = "matched"

(***************************************************************************)
(* Claims, ledger: what is stored and what the shortlist reads             *)
(***************************************************************************)
\* C28: 'unknown' is never stored: every diner getAllVotesForRestaurant lists
\* for a candidate cast 'maybe' or 'no' on it, and a vote of 'unknown' leaves
\* the diner unlisted
C28_UnknownNeverStored ==
  /\ [](party # NULL =>
          \A c \in RestaurantIds :
            \A d \in DOMAIN getAllVotesForRestaurant(c) :
              getAllVotesForRestaurant(c)[d] \in {"maybe", "no"})
  /\ [][\A d \in Profiles, c \in RestaurantIds :
          (party # NULL /\ vote(d, c, "unknown")) =>
            /\ getVote(d, c)' = "unknown"
            /\ d \notin DOMAIN getAllVotesForRestaurant(c)']_vars

\* the position of a candidate in the candidate sequence
PositionOf(r) == CHOOSE i \in 1..Len(restaurants) : restaurants[i] = r

\* C29: getRestaurantsWithMaybeVotes returns the candidates of the candidate
\* sequence that hold a 'maybe' of any diner, on the roster or not, in the
\* order of the sequence and each once; it is empty without a party
C29_MaybeShortlistExact ==
  LET result == getRestaurantsWithMaybeVotes
  IN IF party = NULL THEN result = <<>>
     ELSE /\ SeqRange(result) =
               {r \in SeqRange(restaurants) :
                  \E d \in DOMAIN VotesOrEmpty(party, r) : party.votes[r][d] = "maybe"}
          /\ \A i, j \in 1..Len(result) :
               i < j => PositionOf(result[i]) < PositionOf(result[j])

\* the candidate sequence is <<Y>>; Y holds only a 'maybe' of B, who is not on
\* the roster, and X, outside the sequence, holds a 'maybe' of A
C29_Witness ==
  /\ party # NULL
  /\ restaurants = <<"Y">>
  /\ RosterIds(party) = {"A"}
  /\ Lookup(VotesOrEmpty(party, "X"), "A") = "maybe"
  /\ DOMAIN VotesOrEmpty(party, "Y") = {"B"}
  /\ party.votes["Y"]["B"] = "maybe"
  /\ getRestaurantsWithMaybeVotes = <<"Y">>

(***************************************************************************)
(* Claims, how a match comes about at a table of in-person diners          *)
(***************************************************************************)
\* at least two diners on the roster attend in person
MultiInPersonSession == party # NULL /\ Len(InPersonDinersOf(party)) >= 2

\* the step writes the match of the party
MatchWritten ==
  \/ party'.matchedRestaurantId # party.matchedRestaurantId
  \/ party'.matchedAt # party.matchedAt

\* one of the resolution steps: the choice of the only shortlisted candidate,
\* the elimination that leaves one survivor, a wheel coming to rest
ResolutionStep ==
  \/ \E now \in Times : chooseOnlyRestaurant(now)
  \/ \E r \in SeqRange(activeRestaurants), now \in Times : handleEliminateRestaurant(r, now)
  \/ \E k \in Randoms, now \in Times : shortlistHandleWheelComplete(k, now)
  \/ \E k \in Randoms, now \in Times : swipeHandleWheelComplete(k, now)

\* C30: with at least two in-person diners no vote writes the match, also not
\* the vote that completes a unanimous 'maybe'; the match is written only by
\* a resolution step
C30_VotesNeverMatchAtInPersonTable ==
  /\ [][(MultiInPersonSession /\ HandleVote) => ~MatchWritten]_vars
  /\ [][(MultiInPersonSession /\ MatchWritten) => ResolutionStep]_vars

\* B, second of two in-person diners, has just accepted the first candidate
\* after A did: the candidate is unanimous, the walk moved on, no match is set
C30_Witness ==
  /\ MultiInPersonSession
  /\ route = "/swipe"
  /\ party.currentInPersonDinerIndex = 1
  /\ party.currentRestaurantIndex = 1
  /\ checkForMatchIn(party, restaurants[1])
  /\ party.matchedRestaurantId = NoId

(***************************************************************************)
(* Claims, who acquires ledger entries on the swipe page                   *)
(***************************************************************************)
\* two or more diners, all remote
AllRemoteTable ==
  /\ party # NULL
  /\ Len(party.selectedDiners) >= 2
  /\ Len(InPersonDinersOf(party)) = 0

\* C31: with two or more diners, all remote, and the roster fixed, every
\* ledger entry belongs to the first diner of the roster and checkForMatch is
\* true for no candidate
C31_AllRemoteOnlyFirstDinerVotes ==
  AllRemoteTable =>
    /\ \A cell \in Cells(party) : cell[2] = party.selectedDiners[1].profileId
    /\ \A i \in 1..Len(restaurants) : ~checkForMatchIn(party, restaurants[i])

\* two remote diners walked through the whole deck and the first of them
\* accepted the first candidate
C31_Witness ==
  /\ AllRemoteTable
  /\ party.currentRestaurantIndex = Len(restaurants)
  /\ Lookup(VotesOrEmpty(party, restaurants[1]), "A") = "maybe"
  /\ \A i \in 1..Len(restaurants) : DOMAIN VotesOrEmpty(party, restaurants[i]) = {"A"}

\* an in-person diner exists and the rotation index addresses one
InRangeRotation ==
  /\ party # NULL
  /\ Len(InPersonDinersOf(party)) > 0
  /\ party.currentInPersonDinerIndex + 1 \in 1..Len(InPersonDinersOf(party))

\* the roster has an in-person diner and a remote diner
MixedRoster ==
  /\ party # NULL
  /\ Len(InPersonDinersOf(party)) > 0
  /\ Len(InPersonDinersOf(party)) < Len(party.selectedDiners)

RemoteIds(p) ==
  {p.selectedDiners[i].profileId :
     i \in {j \in 1..Len(p.selectedDiners) : p.selectedDiners[j].mode = "remote"}}

InPersonIds(p) ==
  {p.selectedDiners[i].profileId :
     i \in {j \in 1..Len(p.selectedDiners) : p.selectedDiners[j].mode = "inPerson"}}

\* C32: a swipe made while the rotation index addresses an in-person diner
\* writes only cells of in-person diners; with a roster of in-person and
\* remote diners no remote diner has a ledger entry and the unanimous
\* shortlist is empty
C32_RemoteNeverVotesAtMixedTable ==
  /\ [][InRangeRotation /\ HandleVote =>
          \A cell \in Cells(party') :
            (cell \notin Cells(party)
               \/ party'.votes[cell[1]][cell[2]] # party.votes[cell[1]][cell[2]])
            => cell[2] \in InPersonIds(party)]_vars
  /\ [](MixedRoster =>
          /\ \A cell \in Cells(party) : cell[2] \notin RemoteIds(party)
          /\ getRestaurantsWithUnanimousMaybes = <<>>)

\* a table of in-person and remote diners where an in-person diner has
\* accepted a candidate and the round has gone on to a later candidate
C32_Witness ==
  /\ MixedRoster
  /\ InRangeRotation
  /\ party.currentRestaurantIndex > 0
  /\ \E cell \in Cells(party) :
       /\ cell[2] \in InPersonIds(party)
       /\ party.votes[cell[1]][cell[2]] = "maybe"

(***************************************************************************)
(* Claims, the in-person walk through a round                              *)
(***************************************************************************)
\* the candidates of the current window the cursor has passed
WindowPositions ==
  (party.inPersonDinerStartIndex + 1)..party.currentRestaurantIndex

\* C33: with two or more in-person diners, when the walk reports Exhausted
\* or RoundComplete, control has passed through all in-person diners: the
\* rotation index addresses the last of them and every candidate of the
\* window has a vote of every in-person diner, a final window of fewer than
\* RESTAURANTS_PER_ROUND candidates included
C33_WindowShownToEveryInPersonDiner ==
  (MultiInPersonSession /\ (Exhausted \/ RoundComplete)) =>
    /\ party.currentInPersonDinerIndex = Len(inPersonDiners) - 1
    /\ \A i \in WindowPositions : \A d \in InPersonIds(party) :
         Lookup(VotesOrEmpty(party, restaurants[i]), d) # Undefined

\* C34: whenever the roster has an in-person diner the rotation index
\* addresses one of them and getCurrentInPersonDiner returns a diner
C34_RotationIndexInRange ==
  (party # NULL /\ Len(InPersonDinersOf(party)) > 0) =>
    /\ 0 <= party.currentInPersonDinerIndex
    /\ party.currentInPersonDinerIndex < Len(InPersonDinersOf(party))
    /\ getCurrentInPersonDiner # NULL

(***************************************************************************)
(* Claims, cursor and candidate list of the current session                *)
(***************************************************************************)
\* C35: with a current session the round-start index and the cursor are
\* ordered, 0 <= inPersonDinerStartIndex <= currentRestaurantIndex, and once
\* candidates are loaded the cursor is at most the length of the list
C35_CursorWithinCandidates ==
  party # NULL =>
    /\ 0 <= party.inPersonDinerStartIndex
    /\ party.inPersonDinerStartIndex <= party.currentRestaurantIndex
    /\ Len(restaurants) > 0 => party.currentRestaurantIndex <= Len(restaurants)

(***************************************************************************)
(* Claims, what the application sets as the match                          *)
(***************************************************************************)
\* C36: whenever a step of the swipe page or of the shortlist page writes the
\* match, the matched id is a candidate of the current candidate sequence
\* with at least one 'maybe' vote in the ledger
C36_MatchIsAcceptedCandidate ==
  [][(party # NULL /\ party' # NULL /\ MatchWritten) =>
       /\ party'.matchedRestaurantId \in SeqRange(restaurants')
       /\ party'.matchedRestaurantId \in DOMAIN party'.votes
       /\ \E d \in DOMAIN party'.votes[party'.matchedRestaurantId] :
            party'.votes[party'.matchedRestaurantId][d] = "maybe"]_vars

\* the browse-only diner picked a row of the shortlist and confirmed it
C36_Witness ==
  /\ party # NULL
  /\ isBrowseOnly
  /\ route = "/shortlist"
  /\ selectedRestaurant # NoId
  /\ party.matchedRestaurantId = selectedRestaurant
  /\ HasMaybeVote(selectedRestaurant)

\* C37: with a current session and a non-empty candidate list, the list is
\* the one the search returned for this session
C37_CandidatesBelongToSession ==
  (party # NULL /\ Len(restaurants) > 0) =>
    restaurants = SearchResults[party.inviteId]

(***************************************************************************)
(* Claims, termination of voting                                           *)
(***************************************************************************)
\* voting has ended: a match is set or the cursor is at the end of the deck
VotingEnded ==
  /\ party # NULL
  /\ \/ party.matchedRestaurantId # NoId
     \/ party.currentRestaurantIndex = Len(restaurants)

\* the number of votes the claim allows
VoteBudget ==
  IF isMultiDinerInPerson
    THEN Len(inPersonDiners) * Len(restaurants)
    ELSE Len(restaurants)

\* C38: with the roster fixed, every swipe taken before voting has ended
\* writes one new cell of the ledger, the ledger never holds more than L
\* cells (N * L with N >= 2 in-person diners), and voting ends: a match is
\* set or the end of the deck is reached
C38_VotingTerminates ==
  /\ [][(~VotingEnded /\ HandleVote) =>
          Cardinality(Cells(party')) = Cardinality(Cells(party)) + 1]_vars
  /\ [](Cardinality(Cells(party)) <= VoteBudget)
  /\ <>VotingEnded

\* two in-person diners reached the end of the deck in the second round
C38_Witness ==
  /\ isMultiDinerInPerson
  /\ VotingEnded
  /\ party.inPersonDinerStartIndex = RESTAURANTS_PER_ROUND
  /\ Cardinality(Cells(party)) > Len(restaurants)

(***************************************************************************)
(* Claims, the persisted record and the session in memory                  *)
(***************************************************************************)
\* a step that leaves a current session different from the one before it
SessionWritten == party' # NULL /\ party' # party

\* C39: after createParty and after every mutator of the current session
\* the record stored under the session's invite id, read back as loadParty
\* reads it, equals the session in memory
C39_PersistedEqualsMemory ==
  /\ [][SessionWritten => loadPartyResult(storage', party'.inviteId) = party']_vars
  /\ [](party # NULL => loadPartyResult(storage, party.inviteId) = party)

\* a session with a diner, a vote, a date, a match and a moved cursor whose
\* stored record reads back as the session
C39_Witness ==
  /\ party # NULL
  /\ Len(party.selectedDiners) > 0
  /\ party.votes # EmptyObject
  /\ party.dateTime # NoDateTime
  /\ party.matchedRestaurantId # NoId
  /\ party.currentRestaurantIndex > 0
  /\ loadPartyResult(storage, party.inviteId) = party

====
